---------------------------- MODULE Spec2Model ----------------------------
(***************************************************************************)
(* A model of the bisq query builder (src/bisq.go): the Builder struct,    *)
(* its chained methods, the recursive WHERE-clause assembler               *)
(* buildWhereClause and the value extractor recursiveValues.               *)
(*                                                                         *)
(* Text.  A Go string is modelled as a sequence of atoms.  Every literal   *)
(* the code writes ("SELECT ", " AND ", "(", ...) is one atom, a decimal   *)
(* number is one atom per digit, and a caller-supplied string is a         *)
(* sequence of atoms chosen by the caller.  The template marker "[WHERE]"  *)
(* of WhereBlock.String is one atom, so strings.ReplaceAll on it is the    *)
(* replacement of every such atom, wherever it stands in the string.       *)
(*                                                                         *)
(* Values.  A Go interface{} value is a tagged record (IntVal, StrVal).    *)
(*                                                                         *)
(* Closures.  The func(b *Builder) handed to WhereFn is a sequence of      *)
(* method calls that RunFn applies to the builder it is given; it is run   *)
(* again at every render and at every Values(), as in the code.            *)
(***************************************************************************)
EXTENDS Integers, Sequences, FiniteSets, TLC

VARIABLES
    b,          \* the Builder under construction (a record of its fields)
    lastCall,   \* the method called last on b, with its arguments
    gets        \* how many times Get has been called on b

vars == <<b, lastCall, gets>>

(***************************************************************************)
(* Bound of the model: the chain of calls on the builder is cut once the   *)
(* builder holds MaxCalls blocks and rendered statements.                  *)
(***************************************************************************)
MaxCalls == 5

(***************************************************************************)
(* Text helpers: strings.Join, strings.ReplaceAll, fmt's %v of an int,     *)
(* strings.ToLower and strings.ToUpper.                                    *)
(***************************************************************************)
RECURSIVE Join(_, _)
Join(elems, sep) ==
    IF Len(elems) = 0 THEN <<>>
    ELSE IF Len(elems) = 1 THEN elems[1]
    ELSE elems[1] \o sep \o Join(Tail(elems), sep)

RECURSIVE ReplaceAll(_, _, _)
ReplaceAll(s, old, new) ==
    IF Len(s) = 0 THEN <<>>
    ELSE (IF Head(s) = old THEN new ELSE <<Head(s)>>)
         \o ReplaceAll(Tail(s), old, new)

Digits == <<"0", "1", "2", "3", "4", "5", "6", "7", "8", "9">>

RECURSIVE Itoa(_)
Itoa(n) ==
    IF n < 10 THEN <<Digits[n + 1]>>
    ELSE Itoa(n \div 10) \o <<Digits[(n % 10) + 1]>>

\* The letters a direction can be written in, lower case and upper case.
Lower == <<"a", "c", "d", "e", "s", "u", "p">>
Upper == <<"A", "C", "D", "E", "S", "U", "P">>

LowerChar(c) ==
    IF \E i \in DOMAIN Upper : Upper[i] = c
    THEN Lower[CHOOSE i \in DOMAIN Upper : Upper[i] = c]
    ELSE c

UpperChar(c) ==
    IF \E i \in DOMAIN Lower : Lower[i] = c
    THEN Upper[CHOOSE i \in DOMAIN Lower : Lower[i] = c]
    ELSE c

ToLower(s) == [i \in DOMAIN s |-> LowerChar(s[i])]
ToUpper(s) == [i \in DOMAIN s |-> UpperChar(s[i])]

(***************************************************************************)
(* Go values (interface{}) and fmt.Sprintf("%v", v).                       *)
(***************************************************************************)
IntVal(n) == [type |-> "int", int |-> n]
StrVal(s) == [type |-> "string", str |-> s]

Sprint(v) == IF v.type = "int" THEN Itoa(v.int) ELSE v.str

Nil == [kind |-> "nil"]

(***************************************************************************)
(* The Block variants and their String methods.                            *)
(***************************************************************************)
WhereBlock(column, value, op) ==
    [kind |-> "WhereBlock", column |-> column, value |-> value, op |-> op]
WhereNullBlock(column) == [kind |-> "WhereNullBlock", column |-> column]
OrBlock == [kind |-> "OrBlock"]
WhereFnBlock(fn) == [kind |-> "WhereFnBlock", fn |-> fn]
OrderByBlock(column, direction) ==
    [kind |-> "OrderByBlock", column |-> column, direction |-> direction]
LimitBlock(limit) == [kind |-> "LimitBlock", limit |-> limit]
OffsetBlock(offset) == [kind |-> "OffsetBlock", offset |-> offset]

OrderByBlock_String(o) == o.column \o <<" ">> \o o.direction
WhereBlock_String(w) == w.column \o <<" ">> \o w.op \o <<" ">> \o <<"[WHERE]">>
OffsetBlock_String(o) == <<"OFFSET ">> \o Itoa(o.offset)
LimitBlock_String(l) == <<"LIMIT ">> \o Itoa(l.limit)
WhereNullBlock_String(w) == w.column \o <<" IS NULL">>

(***************************************************************************)
(* Table and the chained methods, as functions from builder to builder.    *)
(***************************************************************************)
Table(name) ==
    [query |-> <<>>, tableName |-> name, wheres |-> <<>>, limit |-> Nil,
     offset |-> Nil, prev |-> Nil, orderBys |-> <<>>]

Builder_Limit(self, limit) == [self EXCEPT !.limit = LimitBlock(limit)]

Builder_Offset(self, offset) == [self EXCEPT !.offset = OffsetBlock(offset)]

Builder_OrderBy(self, column, direction) ==
    LET dir == IF ToLower(direction) # <<"a", "s", "c">>
                  /\ ToLower(direction) # <<"d", "e", "s", "c">>
               THEN <<"a", "s", "c">>
               ELSE direction
    IN  [self EXCEPT !.orderBys = Append(@, OrderByBlock(column, ToUpper(dir)))]

\* A variant of Builder.Where without the early return: a call without
\* values appends a comparison that binds nil.
Builder_WhereNoEarlyReturn(self, column, value) ==
    LET block == IF Len(value) > 1
                 THEN WhereBlock(column, value[2], Sprint(value[1]))
                 ELSE IF Len(value) = 1
                 THEN WhereBlock(column, value[1], <<"=">>)
                 ELSE WhereBlock(column, Nil, <<"=">>)
    IN  [self EXCEPT !.wheres = Append(@, block)]

Builder_Where(self, column, value) ==
    IF Len(value) = 0 THEN self
    ELSE LET block == IF Len(value) > 1
                      THEN WhereBlock(column, value[2], Sprint(value[1]))
                      ELSE WhereBlock(column, value[1], <<"=">>)
         IN  [self EXCEPT !.wheres = Append(@, block)]

Builder_WhereNull(self, column) ==
    [self EXCEPT !.wheres = Append(@, WhereNullBlock(column))]

Builder_WhereFn(self, fn) ==
    [self EXCEPT !.wheres = Append(@, WhereFnBlock(fn))]

Builder_Or(self) == [self EXCEPT !.wheres = Append(@, OrBlock)]

(***************************************************************************)
(* Closures: a closure body is a sequence of calls on the builder it is    *)
(* handed.                                                                 *)
(***************************************************************************)
CallWhere(column, value) == [op |-> "Where", column |-> column, value |-> value]
CallWhereNull(column) == [op |-> "WhereNull", column |-> column]
CallOr == [op |-> "Or"]
CallWhereFn(fn) == [op |-> "WhereFn", fn |-> fn]

ApplyCall(self, call) ==
    CASE call.op = "Where" -> Builder_Where(self, call.column, call.value)
      [] call.op = "WhereNull" -> Builder_WhereNull(self, call.column)
      [] call.op = "Or" -> Builder_Or(self)
      [] call.op = "WhereFn" -> Builder_WhereFn(self, call.fn)

RECURSIVE RunFn(_, _)
RunFn(fn, self) ==
    IF Len(fn) = 0 THEN self
    ELSE RunFn(Tail(fn), ApplyCall(self, Head(fn)))

\* The fresh sub-builder a WhereFnBlock's closure is run on.
newInnerBuilder(self) ==
    [query |-> <<>>, tableName |-> self.tableName, wheres |-> <<>>,
     limit |-> Nil, offset |-> Nil, prev |-> Nil, orderBys |-> <<>>]

(***************************************************************************)
(* buildWhereClause.  The loop over b.wheres is whereLoop; one iteration   *)
(* renders the block (blockFragment), picks the joiner from b.prev and     *)
(* the block (joiner), appends both and stores the block in b.prev         *)
(* (setPrev).  The result carries the builder, whose prev field the call   *)
(* has changed.                                                            *)
(***************************************************************************)
RECURSIVE buildWhereClause(_, _)

placeholder(whereValue) == <<"$">> \o Itoa(whereValue + 1)

whereFragment(v, whereValue) ==
    ReplaceAll(WhereBlock_String(v), "[WHERE]", placeholder(whereValue))

\* A variant of groupFragment that does not adopt the counter the nested
\* call returns.
groupFragmentKeepsCounter(self, v, whereValue) ==
    LET innerBuilder == RunFn(v.fn, newInnerBuilder(self))
        inner == buildWhereClause(innerBuilder, whereValue)
    IN  [innerSB |-> <<"(">> \o inner.query \o <<")">>,
         whereValue |-> whereValue]

groupFragment(self, v, whereValue) ==
    LET innerBuilder == RunFn(v.fn, newInnerBuilder(self))
        inner == buildWhereClause(innerBuilder, whereValue)
    IN  [innerSB |-> <<"(">> \o inner.query \o <<")">>,
         whereValue |-> inner.whereValue]

blockFragment(self, block, whereValue) ==
    CASE block.kind = "WhereBlock" ->
            [innerSB |-> whereFragment(block, whereValue),
             whereValue |-> whereValue + 1]
      [] block.kind = "WhereNullBlock" ->
            [innerSB |-> WhereNullBlock_String(block), whereValue |-> whereValue]
      [] block.kind = "OrBlock" ->
            [innerSB |-> <<>>, whereValue |-> whereValue]
      [] block.kind = "WhereFnBlock" -> groupFragment(self, block, whereValue)

\* A variant of joiner that looks at the current block where the code
\* looks at the previous one.
joinerOnCurrent(self, block, idx) ==
    IF idx > 0
    THEN IF block.kind = "OrBlock" THEN <<" OR ">> ELSE <<" AND ">>
    ELSE <<>>

\* idx is the Go index of the block (0 for the first).
joiner(self, block, idx) ==
    IF idx > 0
    THEN IF self.prev.kind = "OrBlock" THEN <<" OR ">>
         ELSE IF block.kind # "OrBlock" THEN <<" AND ">> ELSE <<>>
    ELSE <<>>

\* A variant of setPrev that records only the blocks of two cases of the
\* switch, so that a null check leaves the entry before it in prev.
setPrevSkipsNullCheck(self, block) ==
    IF block.kind = "WhereNullBlock" THEN self
    ELSE [self EXCEPT !.prev = block]

setPrev(self, block) == [self EXCEPT !.prev = block]

RECURSIVE whereLoop(_, _, _, _)
whereLoop(self, idx, subSB, whereValue) ==
    IF idx >= Len(self.wheres)
    THEN [query |-> subSB, whereValue |-> whereValue, self |-> self]
    ELSE LET block == self.wheres[idx + 1]
             frag == blockFragment(self, block, whereValue)
         IN  whereLoop(setPrev(self, block), idx + 1,
                       subSB \o joiner(self, block, idx) \o frag.innerSB,
                       frag.whereValue)

buildWhereClause(self, whereValue) == whereLoop(self, 0, <<>>, whereValue)

(***************************************************************************)
(* Values and recursiveValues.                                             *)
(***************************************************************************)
RECURSIVE recursiveValues(_, _)

\* A variant of groupValues that does not descend into the group.
groupValuesSkipped(self, wfn, values) == values

\* The values of one WhereFnBlock: its closure is run on a fresh builder,
\* whose values are appended to those collected so far.
groupValues(self, wfn, values) ==
    LET wBuilder == RunFn(wfn.fn, newInnerBuilder(self))
    IN  recursiveValues(wBuilder, values)

RECURSIVE valuesLoop(_, _, _)
valuesLoop(self, idx, values) ==
    IF idx >= Len(self.wheres) THEN values
    ELSE LET block == self.wheres[idx + 1]
             v1 == IF block.kind = "WhereBlock"
                   THEN Append(values, block.value) ELSE values
             v2 == IF block.kind = "WhereFnBlock"
                   THEN groupValues(self, block, v1) ELSE v1
         IN  valuesLoop(self, idx + 1, v2)

recursiveValues(self, values) == valuesLoop(self, 0, values)

Builder_Values(self) == recursiveValues(self, <<>>)

Builder_String(self) == self.query

(***************************************************************************)
(* Get: appends one rendered statement to the query text.                  *)
(***************************************************************************)
orderByClause(self) ==
    IF Len(self.orderBys) > 0
    THEN <<" ORDER BY ">>
         \o Join([i \in DOMAIN self.orderBys |->
                     OrderByBlock_String(self.orderBys[i])], <<", ">>)
    ELSE <<>>

\* A variant of limitClause that takes a limit of 0 for no limit.
limitClauseSkipsZero(self) ==
    IF self.limit # Nil /\ self.limit.limit # 0
    THEN <<" ">> \o LimitBlock_String(self.limit) ELSE <<>>

limitClause(self) ==
    IF self.limit # Nil THEN <<" ">> \o LimitBlock_String(self.limit) ELSE <<>>

offsetClause(self) ==
    IF self.offset # Nil THEN <<" ">> \o OffsetBlock_String(self.offset) ELSE <<>>

\* A variant of writeString that starts the text anew.
writeStringTruncates(self, text) == [self EXCEPT !.query = text]

\* b.query.WriteString(text): the text is appended to the query.
writeString(self, text) == [self EXCEPT !.query = @ \o text]

Builder_Get(self, columns) ==
    LET cols == IF Len(columns) = 0 THEN <<<<"*">>>> ELSE columns
        head == <<"SELECT ">> \o Join(cols, <<", ">>) \o <<" FROM ">>
                \o self.tableName
        w    == buildWhereClause(self, 0)
        self1 == IF Len(self.wheres) > 0 THEN w.self ELSE self
        where == IF Len(self.wheres) > 0
                 THEN <<" WHERE ">> \o w.query ELSE <<>>
    IN  writeString(self1, head \o where \o orderByClause(self)
                           \o limitClause(self) \o offsetClause(self)
                           \o <<";">>)

(***************************************************************************)
(* The inputs of the calls.                                                *)
(***************************************************************************)
TableName == <<"leads">>
Id == <<"id">>
Desc == <<"D", "e", "s", "c">>
Up == <<"u", "p">>

\* Closure bodies handed to WhereFn.
FnOr == <<CallWhere(Id, <<IntVal(4)>>), CallOr, CallWhereNull(Id)>>
FnNested == <<CallWhere(Id, <<StrVal(<<"<">>), IntVal(5)>>), CallOr,
              CallWhereFn(FnOr), CallWhere(Id, <<>>), CallWhereNull(Id)>>

\* Inputs of the specification of the whole builder (Spec).
WhereArgs == {<<>>, <<IntVal(1)>>}
Closures == {FnOr}
Directions == {Desc, Up}
Limits == {0, 10}
Offsets == {20}
ColumnLists == {<<>>, <<Id, <<"name">>>>}

\* Inputs of the specification of the WHERE assembler (SpecWhere): the
\* methods that fill the WHERE list, and Get.
WhereArgsW == {<<>>, <<IntVal(1)>>, <<StrVal(<<"[WHERE]">>), IntVal(3)>>}
ClosuresW == {FnOr, FnNested}
ColumnListsW == {<<>>}

(***************************************************************************)
(* The state machine: one action per method called on the builder.         *)
(* String() and Values() read the builder and change nothing; they are the *)
(* operators Builder_String and Builder_Values.                            *)
(***************************************************************************)
Init ==
    /\ b = Table(TableName)
    /\ lastCall = [op |-> "Table", name |-> TableName]
    /\ gets = 0

\* What the chain has left in the builder: its blocks and its statements.
Size ==
    Len(b.wheres) + Len(b.orderBys) + (IF b.limit # Nil THEN 1 ELSE 0)
    + (IF b.offset # Nil THEN 1 ELSE 0) + gets

Where(column, value) ==
    /\ Size < MaxCalls
    /\ b' = Builder_Where(b, column, value)
    /\ lastCall' = [op |-> "Where", column |-> column, value |-> value]
    /\ UNCHANGED gets

WhereNull(column) ==
    /\ Size < MaxCalls
    /\ b' = Builder_WhereNull(b, column)
    /\ lastCall' = [op |-> "WhereNull", column |-> column]
    /\ UNCHANGED gets

Or ==
    /\ Size < MaxCalls
    /\ b' = Builder_Or(b)
    /\ lastCall' = [op |-> "Or"]
    /\ UNCHANGED gets

WhereFn(fn) ==
    /\ Size < MaxCalls
    /\ b' = Builder_WhereFn(b, fn)
    /\ lastCall' = [op |-> "WhereFn", fn |-> fn]
    /\ UNCHANGED gets

OrderBy(column, direction) ==
    /\ Size < MaxCalls
    /\ b' = Builder_OrderBy(b, column, direction)
    /\ lastCall' = [op |-> "OrderBy", column |-> column, direction |-> direction]
    /\ UNCHANGED gets

Limit(limit) ==
    /\ Size < MaxCalls
    /\ b' = Builder_Limit(b, limit)
    /\ lastCall' = [op |-> "Limit", limit |-> limit]
    /\ UNCHANGED gets

Offset(offset) ==
    /\ Size < MaxCalls
    /\ b' = Builder_Offset(b, offset)
    /\ lastCall' = [op |-> "Offset", offset |-> offset]
    /\ UNCHANGED gets

Get(columns) ==
    /\ Size < MaxCalls
    /\ b' = Builder_Get(b, columns)
    /\ lastCall' = [op |-> "Get", columns |-> columns]
    /\ gets' = gets + 1

Next ==
    \/ \E value \in WhereArgs : Where(Id, value)
    \/ WhereNull(Id)
    \/ Or
    \/ \E fn \in Closures : WhereFn(fn)
    \/ \E direction \in Directions : OrderBy(Id, direction)
    \/ \E limit \in Limits : Limit(limit)
    \/ \E offset \in Offsets : Offset(offset)
    \/ \E columns \in ColumnLists : Get(columns)

Spec == Init /\ [][Next]_vars

NextWhere ==
    \/ \E value \in WhereArgsW : Where(Id, value)
    \/ WhereNull(Id)
    \/ Or
    \/ \E fn \in ClosuresW : WhereFn(fn)
    \/ \E columns \in ColumnListsW : Get(columns)

SpecWhere == Init /\ [][NextWhere]_vars

(***************************************************************************)
(* Notions the properties are stated in.                                   *)
(***************************************************************************)
\* The WHERE list a closure leaves in the builder it is run on.
Entries(fn) == RunFn(fn, Table(TableName)).wheres

\* A fresh builder holding the WHERE list l, and the clause assembled from
\* it with the placeholder counter starting at n.
WithWheres(l) == [Table(TableName) EXCEPT !.wheres = l]
Clause(l, n) == buildWhereClause(WithWheres(l), n)

IsReal(block) == block.kind # "OrBlock"

\* The Comparison entries of a WHERE list in depth-first document order: a
\* group's comparisons stand at the place of the group entry.
RECURSIVE Comparisons(_)
Comparisons(l) ==
    IF Len(l) = 0 THEN <<>>
    ELSE LET h == Head(l)
             own == CASE h.kind = "WhereBlock" -> <<h>>
                      [] h.kind = "WhereFnBlock" -> Comparisons(Entries(h.fn))
                      [] OTHER -> <<>>
         IN  own \o Comparisons(Tail(l))

\* Every list assembled while the list l is rendered from counter n: l and
\* the lists of its groups, at any depth, each with the counter it starts
\* from (n plus the comparisons that stand before it in document order).
RECURSIVE Renders(_, _)
Renders(l, n) ==
    {[wheres |-> l, start |-> n]} \cup
    UNION {Renders(Entries(l[i].fn),
                   n + Len(Comparisons(SubSeq(l, 1, i - 1)))) :
           i \in {j \in DOMAIN l : l[j].kind = "WhereFnBlock"}}

\* The joiner the entry at position i (1 for the first) of the list l is
\* to receive, from the entries at i - 1 and i alone.
JoinerOf(l, i) ==
    IF i = 1 THEN <<>>
    ELSE IF l[i - 1].kind = "OrBlock" THEN <<" OR ">>
    ELSE IF l[i].kind = "OrBlock" THEN <<>>
    ELSE <<" AND ">>

IsDigit(a) == \E d \in DOMAIN Digits : Digits[d] = a
DigitValue(a) == (CHOOSE d \in DOMAIN Digits : Digits[d] = a) - 1

\* The number written in the leading digits of s, after the value acc.
RECURSIVE ReadNumber(_, _)
ReadNumber(s, acc) ==
    IF Len(s) > 0 /\ IsDigit(Head(s))
    THEN ReadNumber(Tail(s), 10 * acc + DigitValue(Head(s)))
    ELSE acc

\* The numbers of the placeholders $n of a text, in the order they stand.
RECURSIVE PlaceholderNumbers(_)
PlaceholderNumbers(s) ==
    IF Len(s) = 0 THEN <<>>
    ELSE (IF Head(s) = "$" THEN <<ReadNumber(Tail(s), 0)>> ELSE <<>>)
         \o PlaceholderNumbers(Tail(s))

\* The statements of a query text, each up to and including its ";".
RECURSIVE Statements(_, _)
Statements(s, cur) ==
    IF Len(s) = 0 THEN (IF Len(cur) = 0 THEN <<>> ELSE <<cur>>)
    ELSE IF Head(s) = ";" THEN <<Append(cur, ";")>> \o Statements(Tail(s), <<>>)
    ELSE Statements(Tail(s), Append(cur, Head(s)))

(***************************************************************************)
(* C10.  The joiner depends only on the two neighbouring entries.          *)
(***************************************************************************)
\* C10: after every Get, in every call of buildWhereClause made while b is
\* rendered (the top-level list and every nested group), the text assembled
\* up to the entry at position i is the text assembled up to position
\* i - 1, then the joiner decided by the entries i - 1 and i alone (none
\* before the first entry), then the entry's own fragment; and what an
\* earlier Get left in b.prev changes nothing of the clause rendered from b.
C10_JoinerFromNeighboursOnly ==
    lastCall.op = "Get" =>
    /\ buildWhereClause(b, 0).query = Clause(b.wheres, 0).query
    /\ \A r \in Renders(b.wheres, 0) :
         \A i \in DOMAIN r.wheres :
            LET pre == Clause(SubSeq(r.wheres, 1, i - 1), r.start)
                own == Clause(<<r.wheres[i]>>, pre.whereValue)
            IN  Clause(SubSeq(r.wheres, 1, i), r.start).query
                  = pre.query \o JoinerOf(r.wheres, i) \o own.query

\* A second Get on a builder whose list holds an Or marker, a null check
\* and a group, with b.prev left by the first Get.
C10_Witness ==
    /\ gets = 2
    /\ lastCall.op = "Get"
    /\ b.prev # Nil
    /\ \E i \in DOMAIN b.wheres : b.wheres[i].kind = "OrBlock" /\ i > 1
    /\ \E i \in DOMAIN b.wheres : b.wheres[i].kind = "WhereFnBlock"

(***************************************************************************)
(* C3.  An Or marker between two real entries.                             *)
(***************************************************************************)
\* C3: for every list assembled while b is rendered and every Or marker of
\* it that stands between two real entries, the clause is the clause of the
\* entries before the marker, " OR ", and the clause of the entries after
\* it; the same list without the marker differs only in having " AND " at
\* that junction, so the marker writes no text of its own and every
\* placeholder number is the same with and without it.
C3_OrReplacesAndAtOneJunction ==
    lastCall.op = "Get" =>
    \A r \in Renders(b.wheres, 0) :
       \A p \in DOMAIN r.wheres :
          LET l == r.wheres IN
          (/\ 1 < p /\ p < Len(l)
           /\ l[p].kind = "OrBlock" /\ IsReal(l[p - 1]) /\ IsReal(l[p + 1]))
          =>
          LET left == SubSeq(l, 1, p - 1)
              right == SubSeq(l, p + 1, Len(l))
              L == Clause(left, r.start)
              R == Clause(right, L.whereValue)
              with == Clause(l, r.start)
              without == Clause(left \o right, r.start)
          IN  /\ with.query = L.query \o <<" OR ">> \o R.query
              /\ without.query = L.query \o <<" AND ">> \o R.query
              /\ with.whereValue = without.whereValue
              /\ PlaceholderNumbers(with.query)
                   = PlaceholderNumbers(without.query)

\* A rendered statement whose top-level list is comparison, Or marker,
\* comparison, real entry: one OR junction and one AND junction.
C3_Witness ==
    /\ lastCall.op = "Get"
    /\ Len(b.wheres) = 4
    /\ b.wheres[1].kind = "WhereBlock"
    /\ b.wheres[2].kind = "OrBlock"
    /\ b.wheres[3].kind = "WhereBlock"
    /\ IsReal(b.wheres[4])

(***************************************************************************)
(* C5.  A group is parenthesised and numbered contiguously.                *)
(***************************************************************************)
\* The first placeholder number of a text, 0 when it has none.
FirstPlaceholder(s) ==
    LET ns == PlaceholderNumbers(s) IN IF Len(ns) = 0 THEN 0 ELSE ns[1]

\* C5: for every list assembled while b is rendered and every group entry
\* of it, the text up to the group is the text before it, the parent's
\* joiner, "(", the clause of the group's own list assembled on its own
\* (so its first entry has no joiner), ")"; the group's first comparison
\* is numbered one more than the comparisons rendered before the group, and
\* the counter after the group is the group's last number, from which the
\* next comparison continues.
C5_GroupParenthesisedAndContiguous ==
    lastCall.op = "Get" =>
    \A r \in Renders(b.wheres, 0) :
       \A i \in DOMAIN r.wheres :
          LET l == r.wheres IN
          l[i].kind = "WhereFnBlock" =>
          LET before == Len(Comparisons(SubSeq(l, 1, i - 1)))
              inside == Len(Comparisons(Entries(l[i].fn)))
              pre == Clause(SubSeq(l, 1, i - 1), r.start)
              inner == Clause(Entries(l[i].fn), r.start + before)
              upto == Clause(SubSeq(l, 1, i), r.start)
          IN  /\ \E j \in {<<>>, <<" AND ">>, <<" OR ">>} :
                    upto.query = pre.query \o j \o <<"(">> \o inner.query
                                 \o <<")">>
              /\ pre.whereValue = r.start + before
              /\ inside > 0 =>
                    FirstPlaceholder(inner.query) = r.start + before + 1
              /\ upto.whereValue = r.start + before + inside
              /\ (i < Len(l) /\ l[i + 1].kind = "WhereBlock") =>
                    FirstPlaceholder(Clause(<<l[i + 1]>>, upto.whereValue).query)
                      = r.start + before + inside + 1

\* A rendered statement with a comparison, then a group that holds a
\* nested group, then a comparison.
C5_Witness ==
    /\ lastCall.op = "Get"
    /\ \E i \in DOMAIN b.wheres :
          /\ 1 < i /\ i < Len(b.wheres)
          /\ b.wheres[i - 1].kind = "WhereBlock"
          /\ b.wheres[i].kind = "WhereFnBlock"
          /\ \E k \in DOMAIN Entries(b.wheres[i].fn) :
                Entries(b.wheres[i].fn)[k].kind = "WhereFnBlock"
          /\ b.wheres[i + 1].kind = "WhereBlock"

(***************************************************************************)
(* C1.  Placeholder n and value n belong to the n-th comparison.           *)
(***************************************************************************)
\* The placeholder numbers the comparisons cs are to show, in document
\* order: the n-th comparison shows the number n, as often as its own
\* fragment holds a placeholder.
RECURSIVE NumbersOf(_, _)
NumbersOf(cs, n) ==
    IF Len(cs) = 0 THEN <<>>
    ELSE [k \in 1..Len(PlaceholderNumbers(whereFragment(Head(cs), 0))) |-> n]
         \o NumbersOf(Tail(cs), n + 1)

\* C1: after the one Get of a chain, every placeholder that String() shows
\* for the n-th comparison in depth-first document order is $n, each
\* comparison shows one, and the n-th element of Values() is the value
\* bound by that comparison.
C1_PlaceholderAndValueOfNthComparison ==
    (lastCall.op = "Get" /\ gets = 1) =>
    LET cs == Comparisons(b.wheres) IN
    /\ PlaceholderNumbers(Builder_String(b)) = NumbersOf(cs, 1)
    /\ \A n \in DOMAIN cs :
          Len(PlaceholderNumbers(whereFragment(cs[n], n - 1))) >= 1
    /\ Builder_Values(b) = [n \in DOMAIN cs |-> cs[n].value]

\* A rendered statement with a comparison, a group holding a nested group
\* (three comparisons in all) and a comparison after the group.
C1_Witness ==
    /\ lastCall.op = "Get" /\ gets = 1
    /\ Len(b.wheres) = 3
    /\ b.wheres[1].kind = "WhereBlock"
    /\ b.wheres[2] = WhereFnBlock(FnNested)
    /\ b.wheres[3].kind = "WhereBlock"
    /\ Len(Builder_Values(b)) = 4

(***************************************************************************)
(* C2.  As many placeholders as values.                                    *)
(***************************************************************************)
\* C2: after the one Get of a chain, String() holds as many placeholders as
\* Values() has elements.
C2_PlaceholderCountEqualsValueCount ==
    (lastCall.op = "Get" /\ gets = 1) =>
    Len(PlaceholderNumbers(Builder_String(b))) = Len(Builder_Values(b))

(***************************************************************************)
(* C4.  An Or marker at position 0.                                        *)
(***************************************************************************)
\* C4: after every Get, every list assembled while b is rendered that
\* begins with an Or marker gives the clause of the list without that
\* marker, and no clause begins with a joiner.
C4_LeadingOrHasNoEffect ==
    lastCall.op = "Get" =>
    \A r \in Renders(b.wheres, 0) :
       LET text == Clause(r.wheres, r.start).query IN
       /\ (Len(text) > 0 => Head(text) \notin {" OR ", " AND "})
       /\ (Len(r.wheres) > 0 /\ r.wheres[1].kind = "OrBlock") =>
             text = Clause(Tail(r.wheres), r.start).query

(***************************************************************************)
(* C8.  The operator is inserted verbatim.                                 *)
(***************************************************************************)
\* C8: after every Get, the fragment of every comparison of every list
\* assembled while b is rendered is its column, a space, its operator as
\* the caller gave it, a space and the one placeholder $n.
C8_OperatorAndColumnVerbatim ==
    lastCall.op = "Get" =>
    \A r \in Renders(b.wheres, 0) :
       \A i \in DOMAIN r.wheres :
          LET v == r.wheres[i]
              n == r.start + Len(Comparisons(SubSeq(r.wheres, 1, i - 1)))
          IN  v.kind = "WhereBlock" =>
                 Clause(<<v>>, n).query
                   = v.column \o <<" ">> \o v.op \o <<" ">> \o <<"$">>
                     \o Itoa(n + 1)

(***************************************************************************)
(* C6.  The clauses of a statement stand in a fixed order.                 *)
(***************************************************************************)
Keywords ==
    {"SELECT ", " FROM ", " WHERE ", " ORDER BY ", "LIMIT ", "OFFSET ", ";"}

IsKeyword(a) == a \in Keywords

LastStatement(query) ==
    LET stmts == Statements(query, <<>>) IN stmts[Len(stmts)]

\* C6: the statement a Get has just written starts with SELECT, the columns
\* given ("*" for none), FROM and the table, and its clause keywords are
\* SELECT, FROM, then WHERE iff the WHERE list is not empty, ORDER BY iff
\* an OrderBy was called, LIMIT iff Limit was called (with any value),
\* OFFSET iff Offset was called, then ";", in this order, whatever the
\* order of the calls that led to the state.
C6_ClausesInFixedOrder ==
    lastCall.op = "Get" =>
    LET s == LastStatement(Builder_String(b))
        cols == IF Len(lastCall.columns) = 0 THEN <<"*">>
                ELSE Join(lastCall.columns, <<", ">>)
        head == <<"SELECT ">> \o cols \o <<" FROM ">> \o b.tableName
    IN  /\ SubSeq(s, 1, Len(head)) = head
        /\ SelectSeq(s, IsKeyword)
             = <<"SELECT ", " FROM ">>
               \o (IF Len(b.wheres) > 0 THEN <<" WHERE ">> ELSE <<>>)
               \o (IF Len(b.orderBys) > 0 THEN <<" ORDER BY ">> ELSE <<>>)
               \o (IF b.limit # Nil THEN <<"LIMIT ">> ELSE <<>>)
               \o (IF b.offset # Nil THEN <<"OFFSET ">> ELSE <<>>)
               \o <<";">>

\* A statement rendered with a WHERE entry, an ORDER BY entry, a limit of 0
\* and an offset.
C6_Witness ==
    /\ lastCall.op = "Get"
    /\ Len(b.wheres) > 0
    /\ Len(b.orderBys) > 0
    /\ b.limit = LimitBlock(0)
    /\ b.offset # Nil

(***************************************************************************)
(* C7.  Where without values changes nothing.                              *)
(***************************************************************************)
\* C7: a step that calls Where with a column and no value leaves the
\* builder as it was: no entry is appended, and the text a later Get
\* writes and the values Values() returns are those of the builder before
\* the call.
C7_WhereWithoutValuesIsNoOp ==
    [][(lastCall'.op = "Where" /\ Len(lastCall'.value) = 0) =>
          /\ b' = b
          /\ Builder_Values(b') = Builder_Values(b)
          /\ \A columns \in ColumnLists :
                Builder_String(Builder_Get(b', columns))
                  = Builder_String(Builder_Get(b, columns))]_vars

\* Where was called last, without a value, on a builder that holds WHERE
\* entries and has rendered a statement.
C7_Witness ==
    /\ lastCall.op = "Where"
    /\ Len(lastCall.value) = 0
    /\ Len(b.wheres) > 0
    /\ gets > 0

(***************************************************************************)
(* C9.  Get appends to the query text and changes nothing else.            *)
(***************************************************************************)
\* The statement Get renders from the builder self.
RenderedFrom(self, columns) ==
    Builder_String(Builder_Get([self EXCEPT !.query = <<>>], columns))

\* C9: String() is empty before the first Get and holds as many
\* statements as Get was called; a Get appends the statement rendered from
\* the builder as it is at that call and leaves the WHERE list, the
\* order-by list, the limit and the offset alone; no other call changes
\* String().
C9_GetAppendsAndNeverResets ==
    [][/\ gets = 0 => Builder_String(b) = <<>>
       /\ IF lastCall'.op = "Get"
          THEN /\ Builder_String(b')
                    = Builder_String(b) \o RenderedFrom(b, lastCall'.columns)
               /\ Len(Statements(Builder_String(b'), <<>>)) = gets'
               /\ b'.wheres = b.wheres
               /\ b'.orderBys = b.orderBys
               /\ b'.limit = b.limit
               /\ b'.offset = b.offset
          ELSE Builder_String(b') = Builder_String(b)]_vars

\* Two Gets on an unchanged builder gave the same statement twice, and the
\* comparison a Where appended after them is not in String().
C9_Witness ==
    /\ gets = 2
    /\ LET stmts == Statements(Builder_String(b), <<>>)
       IN  stmts[1] = stmts[2]
    /\ lastCall.op = "Where"
    /\ Len(lastCall.value) > 0
    /\ Len(b.wheres) = 1
    /\ \A i \in DOMAIN b.query : b.query[i] # " WHERE "

=============================================================================
